---- MODULE Spec2Model ----
(***************************************************************************)
(* A model of Aries' Google Cloud Storage layer (src/gcp/storage.py):      *)
(*   - GSFile, one object of a bucket presented as a seekable, readable,   *)
(*     writable stream with an in-memory buffer and a local temp file;     *)
(*   - GSObject.copy / delete / move and GSFolder.files / folders over a   *)
(*     prefix-keyed store of two buckets.                                  *)
(* Byte strings, keys and paths are sequences; Python's None is the empty  *)
(* tuple and a present value v is the one-element tuple <<v>>.             *)
(***************************************************************************)
EXTENDS Integers, Sequences, FiniteSets, TLC

VARIABLES
    closed,         \* GSFile.__closed
    offset,         \* GSFile.__offset
    buffer,         \* GSFile.__buffer: None, or <<bytes>>
    buffer_offset,  \* GSFile.__buffer_offset: None, or <<int>>
    temp_file,      \* GSFile.__temp_file: None, or <<name of the temp file>>
    gz,             \* GSFile.__gz: None, or <<bool>>
    blob,           \* GSFile.__blob: None (not fetched), or <<handle>>, handle = [size |-> None or <<n>>]
    remote,         \* the object stored at the file's key: None (absent), or <<content>>
    disk,           \* the local temp directory: temp file name -> content
    op,             \* the last call: its name, arguments, result, exception and remote/disk calls
    pre,            \* the stream, remote and disk state when the last call started
    rt,             \* how far the calls so far follow open, write(b), flush, seek(0), read(len(b))
    wlog,           \* the bytes written so far by open, write.., flush.., close on a new stream over no object
    answered,       \* the first value is_gz() returned, and whether the last call was a later is_gz()
    store,          \* the buckets: <<bucket, key>> -> content
    sop,            \* the last store operation: its name, the object it ran on, its argument
    spre,           \* the store when the last store operation started
    steps           \* number of calls made so far

fvars == <<closed, offset, buffer, buffer_offset, temp_file, gz, blob, remote, disk, op, pre, rt,
           wlog, answered>>
svars == <<store, sop, spre>>
vars == <<closed, offset, buffer, buffer_offset, temp_file, gz, blob, remote, disk, op, pre, rt,
          wlog, answered,
          store, sop, spre, steps>>

----------------------------------------------------------------------------
(* Bounds of the model. *)

\* Longest temp file or object content, in bytes, the model follows.
MaxLen == 4
\* Largest stream offset the model follows.
MaxOffset == 6
\* Stands for the 1024 * 1024 bytes of GSFile.write's "buffer_size > 1024 * 1024"
\* (storage.py:405), scaled down so that a buffer can exceed it within MaxLen.
BufferLimit == 2
\* Number of temp file names the temp directory can hand out.
MaxTemp == 2
\* Number of calls made on the stream in one behaviour.
MaxCalls == 5
\* Number of calls made on the store in one behaviour.
MaxStoreCalls == 1
\* Longest object key the model follows.
MaxKey == 7

----------------------------------------------------------------------------
(* Python values. *)

None == <<>>
Some(v) == <<v>>
IsNone(x) == x = <<>>
Val(x) == x[1]

\* len() of an optional bytes value, 0 for None.
LenOpt(x) == IF x = <<>> THEN 0 ELSE Len(x[1])

Min(a, b) == IF a <= b THEN a ELSE b
Max(a, b) == IF a >= b THEN a ELSE b

\* The bytes the model writes and stores: NUL (what a hole in a file reads as),
\* the gzip magic 1F 8B, and the letter "a".
Byte == {0, 31, 97, 139}

\* Python truthiness of an optional bytes value: None and b"" are false.
Truthy(b) == ~IsNone(b) /\ Len(Val(b)) > 0

\* bytes[from:to] with Python's 0-based, end-exclusive, clamped slicing.
Slice(s, from, to) ==
    LET lo == Min(Max(from, 0), Len(s))
        hi == Min(Max(to, lo), Len(s))
    IN  SubSeq(s, lo + 1, hi)

\* A binary file f positioned at pos after f.write(b): the bytes of b replace
\* or extend the content from pos on, and a gap past the end reads as NUL.
WriteAt(content, pos, b) ==
    LET n == Max(Len(content), pos + Len(b))
    IN  [i \in 1..n |->
            IF i > pos /\ i <= pos + Len(b) THEN b[i - pos]
            ELSE IF i <= Len(content) THEN content[i]
            ELSE 0]

----------------------------------------------------------------------------
(* The stream as one record, so that the methods compose as operators.      *)
(* calls: the remote and local-disk calls issued by the running method;     *)
(* exc: the exception it raised ("" for none); ret: the value it returned.  *)

NoRet == [kind |-> "none", v |-> 0]
IntRet(n) == [kind |-> "int", v |-> n]
BoolRet(x) == [kind |-> "bool", v |-> x]
BytesRet(b) == [kind |-> "bytes", v |-> b]
StrRet(b) == [kind |-> "str", v |-> b]
ObjRet == [kind |-> "object", v |-> 0]

Cur ==
    [closed |-> closed, offset |-> offset, buffer |-> buffer,
     buffer_offset |-> buffer_offset, temp_file |-> temp_file, gz |-> gz,
     blob |-> blob, remote |-> remote, disk |-> disk,
     calls |-> <<>>, exc |-> "", ret |-> NoRet]

Call(s, c) == [s EXCEPT !.calls = Append(@, c)]
Raise(s, e) == [s EXCEPT !.exc = e, !.ret = NoRet]
Return(s, r) == [s EXCEPT !.ret = r]

\* Failures the environment can inject into one call: the download of the
\* object into a new temp file, the write of the buffer to the temp file,
\* the upload of the temp file.
FailPoints == {"none", "download", "write", "upload"}

\* A blob handle as bucket.get_blob (object found: metadata loaded) or
\* bucket.blob (not found: a bare handle, size None) builds it.
Handle(r) == [size |-> IF IsNone(r) THEN None ELSE Some(Len(Val(r)))]

\* GSFile.blob: the handle is fetched on first use and kept.
blob_property(s) ==
    IF IsNone(s.blob)
    THEN [Call(s, "get_blob") EXCEPT !.blob = Some(Handle(s.remote))]
    ELSE s

\* StorageFile.closed, as GSFile.write reads it.
closed_property(s) == s.closed

\* tempfile.NamedTemporaryFile: a name no existing temp file has.
NewTempName(d) == CHOOSE n \in 1..MaxTemp : n \notin DOMAIN d /\ \A m \in 1..(n - 1) : m \in DOMAIN d
DiskPut(d, name, c) == [n \in DOMAIN d \cup {name} |-> IF n = name THEN c ELSE d[n]]
DiskRemove(d, name) == [n \in DOMAIN d \ {name} |-> d[n]]

\* The tail of __append: f.write(b), clear the buffer, advance the offset.
append_write(s, name, pos, b, fail) ==
    IF fail = "write" THEN Raise(s, "WriteError")
    ELSE [s EXCEPT !.disk = DiskPut(s.disk, name, WriteAt(s.disk[name], pos, b)),
                   !.buffer = None,
                   !.buffer_offset = None,
                   !.offset = @ + Len(b)]

\* __append without the test for an existing temp file: every
\* materialisation makes a new temp file and leaves the previous one behind.
append_new_temp_file_each_time(s, fail) ==
    IF ~Truthy(s.buffer) THEN s
    ELSE
      LET b == Val(s.buffer)
          name == NewTempName(s.disk)
          s1 == Call([s EXCEPT !.temp_file = Some(name),
                               !.disk = DiskPut(s.disk, name, <<>>)], "mktemp")
          s2 == Call(blob_property(s1), "exists")
      IN  IF ~IsNone(s2.remote)
          THEN LET s3 == Call(s2, "download") IN
               IF fail = "download" THEN Raise(s3, "DownloadError")
               ELSE append_write([s3 EXCEPT !.disk = DiskPut(s3.disk, name, Val(s3.remote))],
                                 name, Len(Val(s3.remote)), b, fail)
          ELSE append_write(s2, name, 0, b, fail)

\* GSFile.__append
append(s, fail) ==
    IF ~Truthy(s.buffer) THEN s
    ELSE
      LET b == Val(s.buffer) IN
      IF IsNone(s.temp_file)
      THEN \* a new temp file; the object, if any, is downloaded into it and
           \* the file stays positioned at the end of the download
        LET name == NewTempName(s.disk)
            s1 == Call([s EXCEPT !.temp_file = Some(name),
                                 !.disk = DiskPut(s.disk, name, <<>>)], "mktemp")
            s2 == Call(blob_property(s1), "exists")
        IN  IF ~IsNone(s2.remote)
            THEN LET s3 == Call(s2, "download") IN
                 IF fail = "download" THEN Raise(s3, "DownloadError")
                 ELSE append_write([s3 EXCEPT !.disk = DiskPut(s3.disk, name, Val(s3.remote))],
                                   name, Len(Val(s3.remote)), b, fail)
            ELSE append_write(s2, name, 0, b, fail)
      ELSE \* open(temp_file, 'w+b') truncates the file, then seek(buffer_offset)
        LET name == Val(s.temp_file)
            s1 == [s EXCEPT !.disk = DiskPut(s.disk, name, <<>>)]
        IN  append_write(s1, name, Val(s.buffer_offset), b, fail)

\* write without the threshold test: the buffer grows until flush, seek or
\* close.
write_unbounded_buffer(s, b, fail) ==
    IF closed_property(s) THEN Raise(s, "ValueError")
    ELSE
      LET s1 == IF IsNone(s.buffer)
                THEN [s EXCEPT !.buffer_offset = Some(s.offset), !.buffer = Some(b)]
                ELSE [s EXCEPT !.buffer = Some(Val(@) \o b)]
      IN  Return([s1 EXCEPT !.offset = @ + Len(b)], IntRet(Len(b)))

\* GSFile.write
write(s, b, fail) ==
    IF closed_property(s) THEN Raise(s, "ValueError")
    ELSE
      LET s1 == IF IsNone(s.buffer)
                THEN [s EXCEPT !.buffer_offset = Some(s.offset), !.buffer = Some(b)]
                ELSE [s EXCEPT !.buffer = Some(Val(@) \o b)]
          s2 == IF Len(Val(s1.buffer)) > BufferLimit THEN append(s1, fail) ELSE s1
      IN  IF s2.exc # "" THEN s2
          ELSE Return([s2 EXCEPT !.offset = @ + Len(b)], IntRet(Len(b)))

\* GSFile.flush
flush(s, fail) ==
    LET s1 == append(s, fail) IN
    IF s1.exc # "" THEN s1
    ELSE IF ~IsNone(s1.temp_file)
    THEN LET s2 == Call(blob_property(s1), "upload") IN
         IF fail = "upload" THEN Raise(s2, "UploadError")
         ELSE LET c == s2.disk[Val(s2.temp_file)] IN
              [s2 EXCEPT !.remote = Some(c), !.blob = Some(Handle(Some(c)))]
    ELSE s1

\* close with the cleanup after flush() instead of in a finally block: an
\* error of flush() skips it.
close_without_finally(s, fail) ==
    IF s.closed THEN s
    ELSE
      LET s1 == flush(s, fail)
          s2 == IF ~IsNone(s1.temp_file)
                THEN Call([s1 EXCEPT !.disk = DiskRemove(s1.disk, Val(s1.temp_file)),
                                     !.temp_file = None], "unlink")
                ELSE s1
      IN  IF s1.exc # "" THEN s1 ELSE [s2 EXCEPT !.buffer = None, !.closed = TRUE]

\* close without the early return for a closed stream and with an unguarded
\* os.unlink(self.__temp_file), which raises when there is no temp file.
close_unguarded(s, fail) ==
    LET s1 == flush(s, fail)
        s2 == IF ~IsNone(s1.temp_file)
              THEN Call([s1 EXCEPT !.disk = DiskRemove(s1.disk, Val(s1.temp_file)),
                                   !.temp_file = None], "unlink")
              ELSE Raise(Call(s1, "unlink"), "TypeError")
    IN  [s2 EXCEPT !.buffer = None, !.closed = TRUE]

\* GSFile.close
close(s, fail) ==
    IF s.closed THEN s
    ELSE
      LET s1 == flush(s, fail)
          s2 == IF ~IsNone(s1.temp_file)
                THEN Call([s1 EXCEPT !.disk = DiskRemove(s1.disk, Val(s1.temp_file)),
                                     !.temp_file = None], "unlink")
                ELSE s1
      IN  [s2 EXCEPT !.buffer = None, !.closed = TRUE]

\* GSFile.open
open(s) == Return([s EXCEPT !.closed = FALSE, !.buffer = None], ObjRet)

\* GSFile.file_size
file_size(s) == Val(s.blob).size

\* GSFile.seek
seek(s, pos, whence, fail) ==
    LET s1 == IF Truthy(s.buffer) THEN append(s, fail) ELSE s IN
    IF s1.exc # "" THEN s1
    ELSE IF whence = 0 THEN Return([s1 EXCEPT !.offset = pos], IntRet(pos))
    ELSE IF whence = 1 THEN Return([s1 EXCEPT !.offset = @ + pos], IntRet(s1.offset + pos))
    ELSE IF whence = 2
    THEN LET s2 == blob_property(s1) IN
         IF IsNone(file_size(s2)) THEN Raise(s2, "TypeError")
         ELSE Return([s2 EXCEPT !.offset = Val(file_size(s2)) + pos],
                     IntRet(Val(file_size(s2)) + pos))
    ELSE Raise(s1, "ValueError")

\* GSFile.tell
tell(s) == Return(s, IntRet(s.offset))

\* What open(temp_file) in text mode makes of the bytes it decodes: under a
\* UTF-8 locale a byte >= 128 that starts no valid sequence (8B never does)
\* raises; under a single-byte locale every byte is one character.
Codecs == {"utf-8", "latin-1"}
Decodes(chunk, codec) == codec = "latin-1" \/ \A i \in 1..Len(chunk) : chunk[i] < 128

\* blob.download_as_string(start, end): the bytes start..end inclusive (to the
\* end of the object when end is None). A range starting at or past the end
\* of the object is not satisfiable; whether the store answers "bytes=0-" on
\* an empty object with the empty content or with an error is the store's choice.
RangeOk(content, start, lenient) ==
    start < Len(content) \/ (start = 0 /\ lenient)
Download(content, start, end) ==
    Slice(content, start, IF IsNone(end) THEN Len(content) ELSE Val(end) + 1)

\* read that asks the bucket first and uses the temp file only when the
\* object does not exist.
read_remote_first(s, size, codec, lenient) ==
    LET s1 == Call(blob_property(s), "exists") IN
    IF ~IsNone(s1.remote)
    THEN
      IF IsNone(file_size(s1)) THEN Raise(s1, "TypeError")
      ELSE
        LET blob_size == Val(file_size(s1))
            end0 == IF IsNone(size) \/ size = Some(0)
                    THEN blob_size - 1
                    ELSE s1.offset + Val(size) - 1
            end == IF end0 >= blob_size - 1 THEN None ELSE Some(end0)
            s2 == Call(s1, "download")
        IN  IF ~RangeOk(Val(s2.remote), s2.offset, lenient)
            THEN Raise(s2, "RangeNotSatisfiable")
            ELSE Return([s2 EXCEPT !.offset = IF ~IsNone(end) /\ Val(end) # 0
                                              THEN Val(end) + 1
                                              ELSE blob_size],
                        BytesRet(Download(Val(s2.remote), s2.offset, end)))
    ELSE IF ~IsNone(s1.temp_file)
    THEN
      LET content == s1.disk[Val(s1.temp_file)]
          rest == Slice(content, s1.offset, Len(content))
          data == IF IsNone(size) THEN rest ELSE Slice(rest, 0, Val(size))
          chunk == IF size = Some(0) THEN <<>> ELSE rest
          s2 == Call(s1, "open_temp")
      IN  IF ~Decodes(chunk, codec) THEN Raise(s2, "UnicodeDecodeError")
          ELSE Return([s2 EXCEPT !.offset = @ + Len(data)], StrRet(data))
    ELSE Return(s1, NoRet)

\* GSFile.read
read(s, size, codec, lenient) ==
    IF ~IsNone(s.temp_file)
    THEN \* with open(self.__temp_file) as f: text mode
      LET content == s.disk[Val(s.temp_file)]
          rest == Slice(content, s.offset, Len(content))
          data == IF IsNone(size) THEN rest ELSE Slice(rest, 0, Val(size))
          chunk == IF size = Some(0) THEN <<>> ELSE rest
          s1 == Call(s, "open_temp")
      IN  IF ~Decodes(chunk, codec) THEN Raise(s1, "UnicodeDecodeError")
          ELSE Return([s1 EXCEPT !.offset = @ + Len(data)], StrRet(data))
    ELSE
      LET s1 == Call(blob_property(s), "exists") IN
      IF ~IsNone(s1.remote)
      THEN
        IF IsNone(file_size(s1)) THEN Raise(s1, "TypeError")
        ELSE
          LET blob_size == Val(file_size(s1))
              end0 == IF IsNone(size) \/ size = Some(0)
                      THEN blob_size - 1
                      ELSE s1.offset + Val(size) - 1
              end == IF end0 >= blob_size - 1 THEN None ELSE Some(end0)
              s2 == Call(s1, "download")
          IN  IF ~RangeOk(Val(s2.remote), s2.offset, lenient)
              THEN Raise(s2, "RangeNotSatisfiable")
              ELSE Return([s2 EXCEPT !.offset = IF ~IsNone(end) /\ Val(end) # 0
                                                THEN Val(end) + 1
                                                ELSE blob_size],
                          BytesRet(Download(Val(s2.remote), s2.offset, end)))
      ELSE Return(s1, NoRet)

\* GSFile.is_gz
is_gz(s, fail, codec, lenient) ==
    IF IsNone(s.gz)
    THEN
      LET s1 == blob_property(s) IN
      IF IsNone(file_size(s1)) THEN Raise(s1, "TypeError")
      ELSE IF Val(file_size(s1)) < 2 THEN Return(s1, BoolRet(FALSE))
      ELSE
        LET saved == s1.offset
            s2 == seek(s1, 0, 0, fail)
            s3 == read(s2, Some(2), codec, lenient)
            s4 == seek(s3, saved, 0, "none")
            b == s3.ret
        IN  IF s2.exc # "" THEN s2
            ELSE IF s3.exc # "" THEN s3
            ELSE IF b.kind # "bytes" THEN Raise(s3, "TypeError")   \* binascii.hexlify of str or None
            ELSE Return([s4 EXCEPT !.gz = Some(b.v = <<31, 139>>)], BoolRet(b.v = <<31, 139>>))
    ELSE Return(s, BoolRet(Val(s.gz)))

\* create without the test for an existing object: the empty payload is
\* uploaded every time.
create_always_uploads(s) ==
    Return([Call(Call(s, "exists"), "upload") EXCEPT !.remote = Some(<<>>)], ObjRet)

\* GSFile.create
create(s) ==
    LET s1 == Call(s, "exists") IN
    IF IsNone(s1.remote)
    THEN Return([Call(s1, "upload") EXCEPT !.remote = Some(<<>>)], ObjRet)
    ELSE Return(s1, ObjRet)

\* GSFile.upload_from_file; local is the content of the file at file_path,
\* None when there is no such file.
upload_from_file(s, local) ==
    IF IsNone(local) THEN Raise(s, "FileNotFoundError")
    ELSE LET s1 == Call(blob_property(s), "upload") IN
         Return([s1 EXCEPT !.remote = local, !.blob = Some(Handle(local))], BoolRet(TRUE))

\* GSObject.delete on the file's own key
delete(s) ==
    LET s1 == Call(s, "list") IN
    IF ~IsNone(s1.remote)
    THEN [Call(s1, "delete") EXCEPT !.remote = None]
    ELSE s1

----------------------------------------------------------------------------
(* The stream's state machine: one action per method of GSFile. *)

\* Inputs of the calls.
WriteData == {<<>>, <<97>>, <<31, 139>>}
\* seek(pos, whence): from the start, from the current position, from the
\* end, and with a whence that is none of 0, 1, 2.
SeekArgs == {<<0, 0>>, <<1, 0>>, <<0, 1>>, <<1, 1>>, <<-1, 1>>, <<0, 2>>, <<-1, 2>>, <<0, 3>>, <<1, 3>>}
ReadSizes == {None, Some(0), Some(1), Some(2)}
LocalFiles == {None, Some(<<>>), Some(<<31, 139>>)}
InitRemote == {None, Some(<<>>), Some(<<97>>), Some(<<31, 139>>)}

EmptyDisk == [n \in {} |-> <<>>]
NoOp == [name |-> "init", args |-> <<>>, ret |-> NoRet, exc |-> "", calls |-> <<>>]
Snapshot ==
    [closed |-> closed, offset |-> offset, buffer |-> buffer,
     buffer_offset |-> buffer_offset, temp_file |-> temp_file, gz |-> gz,
     blob |-> blob, remote |-> remote, disk |-> disk]

\* The exception an injected failure raises.
ErrOf(fail) ==
    CASE fail = "download" -> "DownloadError"
      [] fail = "write" -> "WriteError"
      [] fail = "upload" -> "UploadError"
      [] OTHER -> ""
\* A failure is injected only where the call reaches the failing step.
Injected(fail, s) == fail = "none" \/ s.exc = ErrOf(fail)

Bounded(s) ==
    /\ s.offset \in 0..MaxOffset
    /\ LenOpt(s.remote) <= MaxLen
    /\ LenOpt(s.buffer) <= MaxLen
    /\ \A n \in DOMAIN s.disk : Len(s.disk[n]) <= MaxLen

\* The monitor of the round trip on a new stream: stage k after the first k
\* calls of open, write(b), flush, seek(0), read(len(b)), each returning
\* normally (the read may raise, but not by an injected failure); -1 once
\* the calls have left that sequence.
RoundTripNext(name, args, exc) ==
    LET off == [stage |-> -1, b |-> <<>>] IN
    IF rt.stage = 0 /\ name = "open" /\ exc = "" THEN [stage |-> 1, b |-> <<>>]
    ELSE IF rt.stage = 1 /\ name = "write" /\ exc = "" THEN [stage |-> 2, b |-> args[1]]
    ELSE IF rt.stage = 2 /\ name = "flush" /\ exc = "" THEN [rt EXCEPT !.stage = 3]
    ELSE IF rt.stage = 3 /\ name = "seek" /\ exc = "" /\ args = <<0, 0>> THEN [rt EXCEPT !.stage = 4]
    ELSE IF rt.stage = 4 /\ name = "read" /\ args = <<Some(Len(rt.b))>> /\ exc # "RangeNotSatisfiable"
         THEN [rt EXCEPT !.stage = 5]
    ELSE off

\* The monitor of the written bytes: "open" after open() as the first call on
\* a stream over no object, while only write(b) and flush() follow, each
\* returning normally, data being the concatenation of the b; "closed" once
\* close() has returned after that; "off" once the calls have left that
\* sequence.
WrittenNext(name, args, exc) ==
    LET off == [stage |-> "off", data |-> <<>>] IN
    IF wlog.stage = "new" /\ name = "open" /\ exc = "" /\ IsNone(remote)
    THEN [stage |-> "open", data |-> <<>>]
    ELSE IF wlog.stage = "open" /\ name = "write" /\ exc = ""
    THEN [wlog EXCEPT !.data = @ \o args[1]]
    ELSE IF wlog.stage = "open" /\ name = "flush" /\ exc = "" THEN wlog
    ELSE IF wlog.stage = "open" /\ name = "close" /\ exc = ""
    THEN [wlog EXCEPT !.stage = "closed"]
    ELSE off

\* The monitor of is_gz(): first is the value the first is_gz() that returned
\* gave; again says that the last call was an is_gz() made after that one.
AnsweredNext(name, s) ==
    IF name = "is_gz" /\ ~IsNone(answered.first) THEN [answered EXCEPT !.again = TRUE]
    ELSE IF name = "is_gz" /\ s.exc = "" /\ s.ret.kind = "bool"
    THEN [first |-> Some(s.ret.v), again |-> FALSE]
    ELSE [answered EXCEPT !.again = FALSE]

Commit(name, args, s) ==
    /\ steps < MaxCalls
    /\ steps' = steps + 1
    /\ Bounded(s)
    /\ closed' = s.closed
    /\ offset' = s.offset
    /\ buffer' = s.buffer
    /\ buffer_offset' = s.buffer_offset
    /\ temp_file' = s.temp_file
    /\ gz' = s.gz
    /\ blob' = s.blob
    /\ remote' = s.remote
    /\ disk' = s.disk
    /\ op' = [name |-> name, args |-> args, ret |-> s.ret, exc |-> s.exc, calls |-> s.calls]
    /\ pre' = Snapshot
    /\ rt' = RoundTripNext(name, args, s.exc)
    /\ wlog' = WrittenNext(name, args, s.exc)
    /\ answered' = AnsweredNext(name, s)
    /\ UNCHANGED svars

\* GSFile(gs_path): the stream is created closed; the object may or may not exist.
InitFile ==
    /\ closed = TRUE
    /\ offset = 0
    /\ buffer = None
    /\ buffer_offset = None
    /\ temp_file = None
    /\ gz = None
    /\ blob = None
    /\ remote \in InitRemote
    /\ disk = EmptyDisk
    /\ op = NoOp
    /\ pre = Snapshot
    /\ rt = [stage |-> 0, b |-> <<>>]
    /\ wlog = [stage |-> "new", data |-> <<>>]
    /\ answered = [first |-> None, again |-> FALSE]

Open == \E s \in {open(Cur)} : Commit("open", <<>>, s)

Close ==
    \E fail \in FailPoints :
        \E s \in {close(Cur, fail)} : Injected(fail, s) /\ Commit("close", <<>>, s)

Write ==
    \E b \in WriteData, fail \in FailPoints :
        \E s \in {write(Cur, b, fail)} : Injected(fail, s) /\ Commit("write", <<b>>, s)

Flush ==
    \E fail \in FailPoints :
        \E s \in {flush(Cur, fail)} : Injected(fail, s) /\ Commit("flush", <<>>, s)

Seek ==
    \E a \in SeekArgs, fail \in FailPoints :
        \E s \in {seek(Cur, a[1], a[2], fail)} : Injected(fail, s) /\ Commit("seek", a, s)

Tell == \E s \in {tell(Cur)} : Commit("tell", <<>>, s)

Read ==
    \E size \in ReadSizes, codec \in Codecs, lenient \in BOOLEAN :
        \E s \in {read(Cur, size, codec, lenient)} : Commit("read", <<size>>, s)

IsGz ==
    \E fail \in FailPoints, codec \in Codecs, lenient \in BOOLEAN :
        \E s \in {is_gz(Cur, fail, codec, lenient)} : Injected(fail, s) /\ Commit("is_gz", <<>>, s)

Create == \E s \in {create(Cur)} : Commit("create", <<>>, s)

UploadFromFile ==
    \E local \in LocalFiles :
        \E s \in {upload_from_file(Cur, local)} : Commit("upload_from_file", <<local>>, s)

Delete == \E s \in {delete(Cur)} : Commit("delete", <<>>, s)

Next ==
    \/ Open
    \/ Close
    \/ Write
    \/ Flush
    \/ Seek
    \/ Tell
    \/ Read
    \/ IsGz
    \/ Create
    \/ UploadFromFile
    \/ Delete


----------------------------------------------------------------------------
(* The store: GSObject over two buckets. A key, a prefix and the path of a  *)
(* URI are sequences of the characters "a", "b" and the separator "/"; a    *)
(* URI gs://bucket/path is the record of its bucket and its path, the path  *)
(* being what follows the bucket name ("" or "/...").                        *)

Sep == "/"
Buckets == {"A", "B"}

Uri(b, p) == [bucket |-> b, path |-> p]
\* to.endswith("/") on the URI string: a bucket name is not empty and holds no "/".
EndsWithSep(u) == u.path # <<>> /\ u.path[Len(u.path)] = Sep
\* to += str
AddStr(u, str) == [u EXCEPT !.path = @ \o str]

\* str.startswith
StartsWith(s, p) == Len(p) <= Len(s) /\ SubSeq(s, 1, Len(p)) = p

\* str.replace(old, new): every occurrence of old replaced.
RECURSIVE ReplaceAll(_, _, _)
ReplaceAll(s, old, new) ==
    IF old = <<>> THEN new \o s
    ELSE IF Len(s) < Len(old) THEN s
    ELSE IF SubSeq(s, 1, Len(old)) = old
    THEN new \o ReplaceAll(SubSeq(s, Len(old) + 1, Len(s)), old, new)
    ELSE <<s[1]>> \o ReplaceAll(Tail(s), old, new)

\* str.replace(old, new, 1): the first occurrence of old, if any, replaced.
Replace1(s, old, new) ==
    LET hits == {i \in 1..(Len(s) - Len(old) + 1) : SubSeq(s, i, i + Len(old) - 1) = old}
    IN  IF hits = {} THEN s
        ELSE LET i == CHOOSE j \in hits : \A k \in hits : j <= k
             IN  SubSeq(s, 1, i - 1) \o new \o SubSeq(s, i + Len(old), Len(s))

\* GSObject.__init__: the prefix is the path without its leading "/".
PrefixOf(path) == IF path # <<>> /\ path[1] = Sep THEN Tail(path) ELSE path

\* StorageObject.name, the base name of an object: the last segment of its
\* path, separators at both ends of the path aside.
RECURSIVE StripSep(_)
StripSep(p) ==
    IF p = <<>> THEN p
    ELSE IF p[1] = Sep THEN StripSep(Tail(p))
    ELSE IF p[Len(p)] = Sep THEN StripSep(SubSeq(p, 1, Len(p) - 1))
    ELSE p
RECURSIVE LastSegment(_)
LastSegment(p) ==
    IF p = <<>> \/ p[Len(p)] = Sep THEN <<>>
    ELSE Append(LastSegment(SubSeq(p, 1, Len(p) - 1)), p[Len(p)])
BaseName(path) == LastSegment(StripSep(path))

\* GSObject(gs_path)
GSObject(u) ==
    [cls |-> "GSObject", bucket |-> u.bucket, path |-> u.path,
     prefix |-> PrefixOf(u.path), name |-> BaseName(u.path)]

\* GSFolder(gs_path): a prefix that is not empty ends with "/".
GSFolder(u) ==
    LET o == GSObject(u) IN
    [o EXCEPT !.cls = "GSFolder",
              !.prefix = IF @ # <<>> /\ @[Len(@)] # Sep THEN Append(@, Sep) ELSE @]

\* GSObject.blobs(): the keys of the bucket that start with the prefix.
blobs(st, o) == {k \in {x[2] : x \in {y \in DOMAIN st : y[1] = o.bucket}} : StartsWith(k, o.prefix)}

StorePut(st, at, c) == [x \in DOMAIN st \cup {at} |-> IF x = at THEN c ELSE st[x]]

\* copy_destination without the trailing "/" forced on a bucket root.
copy_destination_root_as_given(o, to) ==
    LET to2 == IF o.prefix # <<>> /\ o.prefix[Len(o.prefix)] = Sep
               THEN IF EndsWithSep(to) THEN AddStr(to, o.name \o <<Sep>>)
                    ELSE AddStr(to, <<Sep>>)
               ELSE IF EndsWithSep(to) THEN AddStr(to, o.name)
                    ELSE to
    IN  GSObject(to2)

\* The destination copy() computes from `to` (storage.py:120-147).
copy_destination(o, to) ==
    LET to1 == IF PrefixOf(to.path) = <<>> /\ ~EndsWithSep(to) THEN AddStr(to, <<Sep>>) ELSE to
        to2 == IF o.prefix # <<>> /\ o.prefix[Len(o.prefix)] = Sep
               THEN IF EndsWithSep(to1) THEN AddStr(to1, o.name \o <<Sep>>)
                    ELSE AddStr(to1, <<Sep>>)
               ELSE IF EndsWithSep(to1) THEN AddStr(to1, o.name)
                    ELSE to1
    IN  GSObject(to2)

\* The copy_blob calls copy() puts in its batch: one per listed blob whose
\* rewritten name differs from its name.
copy_requests(st, o, to) ==
    LET destination == copy_destination(o, to) IN
    {[from |-> <<o.bucket, k>>,
      to |-> <<destination.bucket, Replace1(k, o.prefix, destination.prefix)>>] :
        k \in {x \in blobs(st, o) : Replace1(x, o.prefix, destination.prefix) # x}}

\* The store runs the calls of a batch in any order, and each copy reads its
\* source as it is when the copy runs. The destinations of a batch differ
\* from one another, so the order shows only where a copy r reads the key
\* another copy p of the batch writes (p.to = r.from): r copies what p wrote
\* if p ran first, and what the key held before the batch if not. `early` is
\* the set of such r that ran after their p; every choice of it is some order.
Dependent(reqs) == {r \in reqs : \E p \in reqs : p.to = r.from}
RECURSIVE Copied(_, _, _, _)
Copied(st, reqs, early, r) ==
    IF r \in early
    THEN Copied(st, reqs, early, CHOOSE p \in reqs : p.to = r.from)
    ELSE st[r.from]
BatchResult(st, reqs, early) ==
    [x \in DOMAIN st \cup {r.to : r \in reqs} |->
        IF \E r \in reqs : r.to = x
        THEN Copied(st, reqs, early, CHOOSE r \in reqs : r.to = x)
        ELSE st[x]]

\* GSObject.copy: the stores the batch of copy(to) can leave.
copy(st, o, to) ==
    LET reqs == copy_requests(st, o, to) IN
    {BatchResult(st, reqs, early) : early \in SUBSET Dependent(reqs)}

\* The store without the keys `gone` of bucket b.
StoreRemove(st, b, gone) ==
    [x \in {y \in DOMAIN st : ~(y[1] = b /\ y[2] \in gone)} |-> st[x]]

\* delete with the blobs listed as a folder lists its files: the keys with a
\* further "/" after the prefix are left out.
delete_all_direct_children(st, o) ==
    StoreRemove(st, o.bucket,
                {k \in blobs(st, o) :
                    \A i \in (Len(o.prefix) + 1)..Len(k) : k[i] # Sep})

\* GSObject.delete, its batch carried out in full.
delete_all(st, o) == StoreRemove(st, o.bucket, blobs(st, o))

\* bucket.list_blobs(prefix, delimiter="/"): the items are the keys under the
\* prefix with no delimiter after it; a key with one is rolled up into the
\* common prefix that ends at its first delimiter after the prefix.
HasSep(s) == \E i \in 1..Len(s) : s[i] = Sep
UpToSep(s) == SubSeq(s, 1, CHOOSE i \in 1..Len(s) : s[i] = Sep /\ \A j \in 1..(i - 1) : s[j] # Sep)
Rest(k, o) == SubSeq(k, Len(o.prefix) + 1, Len(k))
\* list_blobs with no delimiter: every blob under the prefix is an item.
list_items_without_delimiter(st, o) == blobs(st, o)
list_items(st, o) == {k \in blobs(st, o) : ~HasSep(Rest(k, o))}
list_prefixes(st, o) == {o.prefix \o UpToSep(Rest(k, o)) : k \in {x \in blobs(st, o) : HasSep(Rest(x, o))}}

\* GSFile(gs_path), as an entry of the store.
GSFile(u) == [GSObject(u) EXCEPT !.cls = "GSFile"]

\* GSFolder.folders: one GSFolder("gs://bucket/" + p) per common prefix p.
folders(st, o) == {GSFolder(Uri(o.bucket, <<Sep>> \o p)) : p \in list_prefixes(st, o)}

\* GSFolder.files: one GSFile("gs://bucket/" + name) per item whose name does
\* not end with "/".
files(st, o) ==
    {GSFile(Uri(o.bucket, <<Sep>> \o k)) : k \in {x \in list_items(st, o) : x[Len(x)] # Sep}}

\* The keys of the files and the prefixes of the folders a folder lists.
FileKeys(st, o) == {f.prefix : f \in files(st, o)}
FolderPrefixes(st, o) == {f.prefix : f \in folders(st, o)}

\* Failures the environment can inject into one call on the store: the batch
\* of copies, the batch of deletes. A batch that fails has carried out some
\* of its calls and not all of them.
StoreFail == {"none", "copy", "delete"}

\* A call on the store ends with the store it leaves, the exception it
\* raised ("" for none), the remote calls it issued, and for move the store
\* as the copy step left it (None when the delete step was not reached).
\* For a listing, ret holds the keys of the files and the prefixes of the
\* folders it returned.
NoListing == [files |-> {}, folders |-> {}]
Outcome(st, exc, calls) ==
    [st |-> st, exc |-> exc, calls |-> calls, mid |-> None, ret |-> NoListing]

\* GSObject.copy as a call. `strict`: leaving "with self.client.batch()" with
\* no request deferred raises ValueError (google.cloud.storage.batch.Batch:
\* "No deferred requests"); copy() enters the batch whatever it listed.
copy_call(st, o, to, strict, fail) ==
    LET reqs == copy_requests(st, o, to) IN
    IF reqs = {}
    THEN {Outcome(st, IF strict THEN "ValueError" ELSE "", <<"list">>)}
    ELSE IF fail = "copy"
    THEN UNION {{Outcome(BatchResult(st, done, early), "BatchError", <<"list", "batch_copy">>) :
                    early \in SUBSET Dependent(done)} :
                        done \in SUBSET reqs \ {reqs}}
    ELSE {Outcome(r, "", <<"list", "batch_copy">>) : r \in copy(st, o, to)}

\* GSObject.delete as a call: the batch is entered only if blobs were listed.
delete_call(st, o, fail) ==
    LET bl == blobs(st, o) IN
    IF bl = {} THEN {Outcome(st, "", <<"list">>)}
    ELSE IF fail = "delete"
    THEN {Outcome(StoreRemove(st, o.bucket, done), "BatchError", <<"list", "batch_delete">>) :
            done \in SUBSET bl \ {bl}}
    ELSE {Outcome(delete_all(st, o), "", <<"list", "batch_delete">>)}

\* move with the two steps the other way round: delete, then copy.
move_delete_first(st, o, to, strict, fail) ==
    UNION {IF d.exc # "" THEN {d}
           ELSE {[st |-> c.st, exc |-> c.exc, calls |-> d.calls \o c.calls, mid |-> Some(d.st),
                  ret |-> NoListing] :
                    c \in copy_call(d.st, o, to, strict, fail)} :
               d \in delete_call(st, o, fail)}

\* GSObject.move: self.copy(to), then self.delete(); an exception of copy
\* leaves move before delete is called.
move(st, o, to, strict, fail) ==
    UNION {IF c.exc # "" THEN {c}
           ELSE {[st |-> d.st, exc |-> d.exc, calls |-> c.calls \o d.calls, mid |-> Some(c.st),
                  ret |-> NoListing] :
                    d \in delete_call(c.st, o, fail)} :
               c \in copy_call(st, o, to, strict, fail)}

----------------------------------------------------------------------------
(* The store's state machine: copy, delete and move on a GSObject or       *)
(* GSFolder, and the listing of a GSFolder.                                *)

\* The objects a bucket may hold at the start; an object's content is named
\* after the place it was first stored at. The key "a/" is the placeholder
\* object of the folder a/.
ObjectPool ==
    {<<"A", <<"a", "/", "b">>>>,
     <<"A", <<"a", "/", "a", "/", "b">>>>,
     <<"A", <<"a", "b">>>>,
     <<"A", <<"a", "/">>>>,
     <<"A", <<"a">>>>,
     <<"B", <<"a", "/", "b">>>>}

\* The folders files and folders are read on.
FolderViews ==
    {GSFolder(Uri(b, p)) : b \in Buckets, p \in {<<>>, <<"/", "a">>, <<"/", "a", "/", "a">>, <<"/", "b">>}}

\* The objects copy and delete are called on.
Sources ==
    {GSObject(Uri("A", <<>>)),
     GSObject(Uri("A", <<"/", "a">>)),
     GSObject(Uri("A", <<"/", "a", "/">>)),
     GSFolder(Uri("A", <<"/", "a">>)),
     GSObject(Uri("A", <<"/", "a", "/", "a", "/">>)),
     GSObject(Uri("A", <<"/", "a", "/", "b">>))}

\* The files delete is called on.
FileSources ==
    {GSFile(Uri("A", <<"/", "a">>)),
     GSFile(Uri("A", <<"/", "a", "/", "b">>)),
     GSFile(Uri("B", <<"/", "a", "/", "b">>))}

\* The destinations given to copy.
ToPaths ==
    {<<>>, <<"/">>, <<"/", "a">>, <<"/", "a", "/">>, <<"/", "b">>, <<"/", "b", "/">>,
     <<"/", "a", "/", "a">>}
ToUris == {Uri(b, p) : b \in Buckets, p \in ToPaths}

NoStoreOp ==
    [name |-> "init", src |-> GSObject(Uri("A", <<>>)), to |-> Uri("A", <<>>),
     exc |-> "", calls |-> <<>>, mid |-> None, ret |-> NoListing]
EmptyStore == [x \in {} |-> <<>>]

InitStore ==
    /\ \E objs \in SUBSET ObjectPool : store = [x \in objs |-> x]
    /\ sop = NoStoreOp
    /\ spre = store
    /\ steps = 0

InitFileIdle ==
    /\ closed = TRUE
    /\ offset = 0
    /\ buffer = None
    /\ buffer_offset = None
    /\ temp_file = None
    /\ gz = None
    /\ blob = None
    /\ remote = None
    /\ disk = EmptyDisk
    /\ op = NoOp
    /\ pre = Snapshot
    /\ rt = [stage |-> 0, b |-> <<>>]
    /\ wlog = [stage |-> "new", data |-> <<>>]
    /\ answered = [first |-> None, again |-> FALSE]

\* The exception an injected failure of a batch raises.
InjectedStoreErrors == {"BatchError"}
\* A failure is injected only where the call reaches the failing batch.
StoreInjected(fail, r) == fail = "none" \/ r.exc \in InjectedStoreErrors

StoreCommit(name, o, to, r) ==
    /\ steps' = steps + 1
    /\ \A x \in DOMAIN r.st : Len(x[2]) <= MaxKey
    /\ store' = r.st
    /\ sop' = [name |-> name, src |-> o, to |-> to,
               exc |-> r.exc, calls |-> r.calls, mid |-> r.mid, ret |-> r.ret]
    /\ spre' = store
    /\ UNCHANGED fvars

Copy ==
    /\ steps < MaxStoreCalls
    /\ \E o \in Sources, to \in ToUris, strict \in BOOLEAN, fail \in {"none", "copy"} :
        \E r \in copy_call(store, o, to, strict, fail) :
            StoreInjected(fail, r) /\ StoreCommit("copy", o, to, r)

DeleteAll ==
    /\ steps < MaxStoreCalls
    /\ \E o \in Sources, fail \in {"none", "delete"} :
        \E r \in delete_call(store, o, fail) :
            StoreInjected(fail, r) /\ StoreCommit("delete", o, Uri(o.bucket, o.path), r)

\* GSFile.delete: GSFile defines no delete of its own, the call runs
\* GSObject.delete with the file's key as the prefix.
DeleteFile ==
    /\ steps < MaxStoreCalls
    /\ \E o \in FileSources, fail \in {"none", "delete"} :
        \E r \in delete_call(store, o, fail) :
            StoreInjected(fail, r) /\ StoreCommit("delete", o, Uri(o.bucket, o.path), r)

Move ==
    /\ steps < MaxStoreCalls
    /\ \E o \in Sources, to \in ToUris, strict \in BOOLEAN, fail \in StoreFail :
        \E r \in move(store, o, to, strict, fail) :
            StoreInjected(fail, r) /\ StoreCommit("move", o, to, r)

\* GSFolder.files and GSFolder.folders read on one folder.
ListFolder ==
    /\ steps < MaxStoreCalls
    /\ \E o \in FolderViews :
        \E r \in {[Outcome(store, "", <<"list", "list">>) EXCEPT
                      !.ret = [files |-> FileKeys(store, o), folders |-> FolderPrefixes(store, o)]]} :
            StoreCommit("list", o, Uri(o.bucket, o.path), r)

NextStore ==
    \/ Copy
    \/ DeleteAll
    \/ DeleteFile
    \/ Move
    \/ ListFolder

InitS == InitStore /\ InitFileIdle

SpecStore == InitS /\ [][NextStore]_vars

\* The stream's specification: the store is left aside.
InitStoreIdle ==
    /\ store = EmptyStore
    /\ sop = NoStoreOp
    /\ spre = EmptyStore
    /\ steps = 0

Init == InitFile /\ InitStoreIdle

Spec == Init /\ [][Next]_vars

----------------------------------------------------------------------------
(* Properties of the stream. *)

InjectedErrors == {"DownloadError", "WriteError", "UploadError"}

\* The stream state a caller can observe changed by the last call.
StreamUnchanged ==
    /\ closed = pre.closed
    /\ offset = pre.offset
    /\ buffer = pre.buffer
    /\ buffer_offset = pre.buffer_offset
    /\ temp_file = pre.temp_file
    /\ gz = pre.gz
    /\ disk = pre.disk
    /\ remote = pre.remote

\* The last call returned the bytes x, and returned None.
ReturnedBytes(x) == op.exc = "" /\ op.ret.kind = "bytes" /\ op.ret.v = x
ReturnedNone == op.exc = "" /\ op.ret.kind = "none"

\* C1: on a new stream, over an absent or an existing object, the calls
\* open(); write(b); flush(); seek(0); read(len(b)) end with read returning
\* exactly the bytes b.
C1_RoundTrip ==
    rt.stage = 5 => ReturnedBytes(rt.b)

\* C2: a write(b) that returns leaves the offset at its value before the call
\* plus len(b), also when the buffer passes the threshold in that call.
C2_WriteAdvancesOffset ==
    (op.name = "write" /\ op.exc = "") => offset = pre.offset + Len(op.args[1])

\* C3: after close() on an open stream, however it ends (normally, or with an
\* error from materialising the buffer or from the upload), no temp file is
\* left, the buffer is cleared and the stream is closed.
C3_CloseCleansUp ==
    (op.name = "close" /\ ~pre.closed) =>
        (temp_file = None /\ DOMAIN disk = {} /\ buffer = None /\ closed)

\* close() ended with a failed upload of an existing temp file.
C3_Witness ==
    /\ op.name = "close"
    /\ ~pre.closed
    /\ op.exc = "UploadError"
    /\ Truthy(pre.buffer)
    /\ DOMAIN disk = {}

\* C4: close() on a closed stream raises nothing, issues no remote or disk
\* call and leaves stream, temp files and object as they were.
C4_CloseIdempotent ==
    (op.name = "close" /\ pre.closed) =>
        (op.exc = "" /\ op.calls = <<>> /\ StreamUnchanged)

\* A second close() of a stream that was written to and closed.
C4_Witness ==
    /\ op.name = "close"
    /\ pre.closed
    /\ offset > 0
    /\ ~IsNone(remote)

\* C5: on a closed stream write(b) and flush() both raise the invalid-state
\* error (ValueError) and change nothing.
C5_ClosedRejectsWriteAndFlush ==
    (op.name \in {"write", "flush"} /\ pre.closed) =>
        (op.exc = "ValueError" /\ StreamUnchanged)

\* C6: seek with a whence outside {0, 1, 2} raises the invalid-argument error
\* (ValueError) and leaves the offset where it was, pending buffer or not.
C6_BadWhenceKeepsOffset ==
    (op.name = "seek" /\ op.args[2] \notin {0, 1, 2} /\ op.exc \notin InjectedErrors) =>
        (op.exc = "ValueError" /\ offset = pre.offset)

\* C7: read() with no temp file returns None, raising nothing and changing
\* nothing, when the object does not exist; read() with no size at offset 0
\* returns the whole content of an object that exists.
C7_ReadAbsentOrWhole ==
    (op.name = "read" /\ IsNone(pre.temp_file) /\ op.exc # "RangeNotSatisfiable") =>
        IF IsNone(pre.remote)
        THEN ReturnedNone /\ StreamUnchanged
        ELSE (op.args[1] = None /\ pre.offset = 0) => ReturnedBytes(Val(pre.remote))

\* The last call returned the boolean x.
ReturnedBool(x) == op.exc = "" /\ op.ret.kind = "bool" /\ op.ret.v = x
\* The last call issued the remote or disk call c.
Issued(c) == \E i \in 1..Len(op.calls) : op.calls[i] = c

\* C15: is_gz() returns False over an object of length 0 or 1, True over an
\* object that starts with 1F 8B, and leaves the offset where it was before
\* the call, written bytes pending or not.
C15_IsGzPeek ==
    (op.name = "is_gz" /\ op.exc \notin InjectedErrors) =>
        /\ offset = pre.offset
        /\ (~IsNone(pre.remote) /\ LenOpt(pre.remote) < 2) => ReturnedBool(FALSE)
        /\ (~IsNone(pre.remote) /\ LenOpt(pre.remote) >= 2
               /\ Slice(pre.remote[1], 0, 2) = <<31, 139>>) => ReturnedBool(TRUE)

\* C16: upload_from_file with a path that does not exist raises
\* FileNotFoundError with no remote call issued and nothing changed; with an
\* existing file it makes the file's content the object's content, and a
\* read() at offset 0 that follows returns that content (a store that
\* refuses the range of an empty object aside).
C16_UploadFromFile ==
    op.name = "upload_from_file" =>
        IF IsNone(op.args[1])
        THEN op.exc = "FileNotFoundError" /\ op.calls = <<>> /\ StreamUnchanged
        ELSE /\ op.exc = ""
             /\ remote = op.args[1]
             /\ offset = 0 =>
                    \A codec \in Codecs, lenient \in BOOLEAN :
                        LET r == read(Cur, None, codec, lenient) IN
                        \/ r.exc = "RangeNotSatisfiable"
                        \/ (r.exc = "" /\ r.ret.kind = "bytes" /\ r.ret.v = op.args[1][1])

\* C17: create() over no object uploads the empty payload and the object
\* exists, empty; over an existing object it uploads nothing and the content
\* stays; a second create() right after changes nothing and uploads nothing.
C17_CreateIdempotent ==
    op.name = "create" =>
        /\ op.exc = ""
        /\ IsNone(pre.remote) => (remote = Some(<<>>) /\ Issued("upload"))
        /\ ~IsNone(pre.remote) => (remote = pre.remote /\ ~Issued("upload"))
        /\ LET again == create(Cur) IN
               /\ again.exc = ""
               /\ again.remote = remote
               /\ \A i \in 1..Len(again.calls) : again.calls[i] # "upload"
               /\ [again EXCEPT !.calls = <<>>, !.ret = NoRet] = Cur

\* create() over a key whose object had been deleted through the stream.
C17_Witness ==
    /\ op.name = "create"
    /\ IsNone(pre.remote)
    /\ ~IsNone(pre.blob)
    /\ remote = Some(<<>>)
    /\ Issued("upload")

\* C19: a stream is created closed, and right after any open() it is open,
\* has no pending buffer and its offset is 0.
C19_OpenResets ==
    /\ op.name = "init" => closed
    /\ op.name = "open" => (~closed /\ buffer = None /\ offset = 0)

\* C20: with no temp file, over an object of length L and at an offset o in
\* 0..L, read(n) returns the bytes [o, min(o+n, L)) and leaves the offset at
\* min(o+n, L); read() returns the bytes [o, L) and leaves the offset at L
\* (a store that refuses the range of an empty object aside).
C20_RemoteReadPositioning ==
    (op.name = "read" /\ IsNone(pre.temp_file) /\ ~IsNone(pre.remote)
        /\ pre.offset <= LenOpt(pre.remote)
        /\ ~(LenOpt(pre.remote) = 0 /\ op.exc = "RangeNotSatisfiable")) =>
        LET c == pre.remote[1]
            o == pre.offset
            to == IF IsNone(op.args[1]) THEN Len(c) ELSE Min(o + op.args[1][1], Len(c))
        IN  ReturnedBytes(Slice(c, o, to)) /\ offset = to

\* The object content a call found when it started, <<>> for no object.
PreObject == IF IsNone(pre.remote) THEN <<>> ELSE pre.remote[1]

\* C21: seek(pos, whence) with whence 0, 1 or 2 leaves no pending buffer and
\* sets and returns the new absolute offset: pos, the offset before the call
\* plus pos, the object's size plus pos; so seek(0, 1) returns what tell()
\* returned before the call, written bytes pending or not.
C21_SeekFromVisiblePosition ==
    (op.name = "seek" /\ op.args[2] \in {0, 1, 2} /\ op.exc \notin InjectedErrors
        /\ (op.args[2] = 2 => ~IsNone(pre.remote))) =>
        LET target == IF op.args[2] = 0 THEN op.args[1]
                      ELSE IF op.args[2] = 1 THEN pre.offset + op.args[1]
                      ELSE Len(PreObject) + op.args[1] IN
        /\ op.exc = ""
        /\ ~Truthy(buffer)
        /\ offset = target
        /\ op.ret = IntRet(target)

\* The temp file content a materialisation starts from: the temp file if
\* there is one, the object's content (none: empty) if not.
PreContent ==
    IF IsNone(pre.temp_file) THEN PreObject ELSE pre.disk[pre.temp_file[1]]

\* C22: a flush() or seek() that finds buffered bytes B recorded at offset k
\* leaves the temp file equal to the content C it started from (the object,
\* downloaded, on first use; the temp file after that) with B written at
\* [k, k+len(B)), and flush() uploads exactly that.
C22_MaterialiseAtBufferOffset ==
    (op.name \in {"flush", "seek"} /\ Truthy(pre.buffer) /\ op.exc \notin InjectedErrors) =>
        LET want == WriteAt(PreContent, pre.buffer_offset[1], pre.buffer[1]) IN
        /\ ~IsNone(temp_file)
        /\ disk[temp_file[1]] = want
        /\ op.name = "flush" => remote = Some(want)


\* C23: a read() made while the stream has a temp file opens the temp file,
\* asks the bucket nothing, and what it returns is the temp file's content
\* from the current offset on (size characters of it when a size is given);
\* a read() made while there is no temp file never opens one, and what it
\* returns other than None comes from a ranged download.
C23_ReadsRouteThroughTempFile ==
    op.name = "read" =>
        IF ~IsNone(pre.temp_file)
        THEN LET content == pre.disk[pre.temp_file[1]]
                 rest == Slice(content, pre.offset, Len(content))
                 size == op.args[1]
             IN  /\ Issued("open_temp")
                 /\ ~Issued("download") /\ ~Issued("exists") /\ ~Issued("get_blob")
                 /\ op.exc = "" =>
                      /\ op.ret.kind \in {"str", "bytes"}
                      /\ op.ret.v = IF IsNone(size) THEN rest ELSE Slice(rest, 0, size[1])
        ELSE /\ ~Issued("open_temp")
             /\ (op.exc = "" /\ op.ret.kind # "none") => Issued("download")

\* A read with a temp file whose content differs from the existing object's
\* returned the temp file's bytes.
C23_Witness ==
    /\ op.name = "read" /\ op.exc = ""
    /\ ~IsNone(pre.temp_file) /\ ~IsNone(pre.remote)
    /\ pre.disk[pre.temp_file[1]] # pre.remote[1]
    /\ op.ret.kind = "str" /\ Len(op.ret.v) > 0


\* b occurs in content as one contiguous run of bytes.
Contains(content, b) ==
    \E i \in 0..(Len(content) - Len(b)) : SubSeq(content, i + 1, i + Len(b)) = b

\* The bytes pending when the call started, b"" for none.
PreBuffer == IF IsNone(pre.buffer) THEN <<>> ELSE pre.buffer[1]

\* C24: after a write() that returned, the buffer holds at most the threshold;
\* when the bytes pending plus the bytes written exceed the threshold they
\* are all in the temp file, nothing was uploaded and the buffer is empty;
\* otherwise they are the buffer and no file was touched. After flush() and
\* seek() (no injected failure) and after close() the buffer is empty.
C24_BufferThreshold ==
    /\ (op.name = "write" /\ op.exc = "") =>
          LET acc == PreBuffer \o op.args[1] IN
          /\ LenOpt(buffer) <= BufferLimit
          /\ IF Len(acc) > BufferLimit
             THEN /\ IsNone(buffer)
                  /\ ~IsNone(temp_file)
                  /\ Contains(disk[temp_file[1]], acc)
                  /\ ~Issued("upload")
                  /\ remote = pre.remote
             ELSE /\ buffer = Some(acc)
                  /\ temp_file = pre.temp_file
                  /\ disk = pre.disk
                  /\ remote = pre.remote
    /\ (op.name \in {"flush", "seek"} /\ op.exc \notin InjectedErrors) => LenOpt(buffer) = 0
    /\ op.name = "close" => LenOpt(buffer) = 0

\* A write onto pending bytes took the buffer over the threshold and returned.
C24_Witness ==
    /\ op.name = "write" /\ op.exc = ""
    /\ Truthy(pre.buffer) /\ Len(pre.buffer[1]) <= BufferLimit
    /\ Len(PreBuffer \o op.args[1]) > BufferLimit
    /\ IsNone(buffer) /\ ~IsNone(temp_file)


\* C25: in every state the temp directory holds at most one temp file, the
\* one the stream names, and none when the stream names none; a call that
\* started with a temp file made no new one, no call makes two; and a closed
\* stream has no temp file.
C25_TempFileOwnership ==
    /\ Cardinality(DOMAIN disk) <= 1
    /\ DOMAIN disk = (IF IsNone(temp_file) THEN {} ELSE {temp_file[1]})
    /\ Cardinality({i \in 1..Len(op.calls) : op.calls[i] = "mktemp"}) <= 1
    /\ ~IsNone(pre.temp_file) => ~Issued("mktemp")
    /\ closed => IsNone(temp_file)

\* Pending bytes were materialised while the stream already had a temp file,
\* and the stream still has that one file.
C25_Witness ==
    /\ op.name \in {"write", "flush", "seek"} /\ op.exc = ""
    /\ ~IsNone(pre.temp_file) /\ Truthy(pre.buffer) /\ ~Truthy(buffer)
    /\ temp_file = pre.temp_file
    /\ DOMAIN disk = {temp_file[1]}


\* C26: an is_gz() made after an is_gz() that returned a value returns that
\* value again and asks neither the bucket nor the temp file, whatever was
\* written or uploaded in between (no injected failure).
C26_IsGzCached ==
    (op.name = "is_gz" /\ answered.again /\ op.exc \notin InjectedErrors) =>
        /\ ReturnedBool(answered.first[1])
        /\ op.calls = <<>>

\* C28: after open() on a new stream over no object, writes and flushes in
\* any order, each returning normally, and close(), the object's content is
\* the concatenation of the bytes written.
C28_NoWrittenByteLost ==
    (wlog.stage = "closed" /\ Len(wlog.data) > 0) => remote = Some(wlog.data)

----------------------------------------------------------------------------
(* Properties of the store. *)

\* A prefix that names a folder: it ends with the separator.
FolderShaped(prefix) == prefix # <<>> /\ prefix[Len(prefix)] = Sep
\* What follows the prefix in a key that starts with it.
Suffix(k, prefix) == SubSeq(k, Len(prefix) + 1, Len(k))
\* The keys a bucket holds under a prefix.
KeysUnder(st, b, prefix) ==
    {x[2] : x \in {y \in DOMAIN st : y[1] = b /\ StartsWith(y[2], prefix)}}
\* The last call was copy(to) on a folder-shaped source, with no failure
\* injected into its batch.
FolderCopy ==
    sop.name = "copy" /\ sop.exc \notin InjectedStoreErrors /\ FolderShaped(sop.src.prefix)

\* C8: copy of a folder S to a destination D with no trailing separator, not
\* a bucket root: every object S+r is afterwards at D+"/"+r in the destination
\* bucket, and a destination that held nothing under D+"/" holds as many
\* objects there as the source had.
C8_FolderRename ==
    (FolderCopy /\ ~EndsWithSep(sop.to) /\ PrefixOf(sop.to.path) # <<>>) =>
        LET S == sop.src.prefix
            T == PrefixOf(sop.to.path) \o <<Sep>>
            listed == KeysUnder(spre, sop.src.bucket, S)
        IN  /\ \A k \in listed : <<sop.to.bucket, T \o Suffix(k, S)>> \in DOMAIN store
            /\ KeysUnder(spre, sop.to.bucket, T) = {} =>
                   Cardinality(KeysUnder(store, sop.to.bucket, T)) = Cardinality(listed)

\* C9: copy of a folder S with base name n to a destination D that ends with
\* the separator: every object S+r is afterwards at D+n+"/"+r, every key the
\* copy added lies under D+n+"/", and a destination that held nothing there
\* holds as many objects there as the source had.
C9_FolderCopyInto ==
    (FolderCopy /\ EndsWithSep(sop.to)) =>
        LET S == sop.src.prefix
            T == PrefixOf(sop.to.path) \o sop.src.name \o <<Sep>>
            listed == KeysUnder(spre, sop.src.bucket, S)
        IN  /\ \A k \in listed : <<sop.to.bucket, T \o Suffix(k, S)>> \in DOMAIN store
            /\ \A x \in DOMAIN store \ DOMAIN spre : x[1] = sop.to.bucket /\ StartsWith(x[2], T)
            /\ KeysUnder(spre, sop.to.bucket, T) = {} =>
                   Cardinality(KeysUnder(store, sop.to.bucket, T)) = Cardinality(listed)

\* The other way of writing a bucket root: gs://bucket for gs://bucket/ and back.
OtherRoot(to) == Uri(to.bucket, IF to.path = <<>> THEN <<Sep>> ELSE <<>>)

\* C10: copy to a bucket root does the same whether the root is written with
\* or without the trailing separator: the stores copy can leave are the same
\* for both, and what it writes goes to the destination bucket under the
\* source's base name.
C10_RootSeparatorInsensitive ==
    (sop.name = "copy" /\ PrefixOf(sop.to.path) = <<>>) =>
        /\ copy(spre, sop.src, sop.to) = copy(spre, sop.src, OtherRoot(sop.to))
        /\ \A strict \in BOOLEAN, fail \in {"none", "copy"} :
               copy_call(spre, sop.src, sop.to, strict, fail)
                   = copy_call(spre, sop.src, OtherRoot(sop.to), strict, fail)
        /\ sop.exc \notin InjectedStoreErrors => store \in copy(spre, sop.src, OtherRoot(sop.to))
        /\ \A x \in DOMAIN store :
               (x \notin DOMAIN spre \/ store[x] # spre[x]) =>
                   (x[1] = sop.to.bucket /\ StartsWith(x[2], sop.src.name))

\* A folder with two objects was copied to the root of the other bucket,
\* written without the separator.
C10_Witness ==
    /\ sop.name = "copy"
    /\ sop.exc = ""
    /\ sop.to = Uri("B", <<>>)
    /\ sop.src.prefix = <<"a", "/", "a", "/">>
    /\ <<"B", <<"a", "/", "b">>>> \in DOMAIN store
    /\ <<"B", <<"a", "/", "b">>>> \notin DOMAIN spre

\* The last call was copy(to) on a source whose prefix does not end with the
\* separator (a file, or an unanchored filter prefix), with no failure
\* injected into its batch.
FileCopy ==
    sop.name = "copy" /\ sop.exc \notin InjectedStoreErrors /\ ~FolderShaped(sop.src.prefix)

\* C11: copy of a file or unanchored prefix P with base name n to D: every
\* object P+r is afterwards at D+n+r in the destination bucket when D ends
\* with the separator (a bucket root does, with or without it), and at D+r
\* when it does not; the object there holds what the source object held,
\* unless the same call wrote the source key as well.
C11_FileCopy ==
    FileCopy =>
        LET P == sop.src.prefix
            D == PrefixOf(sop.to.path)
            T == IF EndsWithSep(sop.to) \/ D = <<>> THEN D \o sop.src.name ELSE D
            listed == KeysUnder(spre, sop.src.bucket, P)
            written == {T \o Suffix(k, P) : k \in listed}
        IN  \A k \in listed :
                /\ <<sop.to.bucket, T \o Suffix(k, P)>> \in DOMAIN store
                /\ (sop.to.bucket = sop.src.bucket /\ k \in written)
                       \/ store[<<sop.to.bucket, T \o Suffix(k, P)>>] = spre[<<sop.src.bucket, k>>]

\* C12: after delete() has returned normally, the location lists no object
\* under its prefix, no file and no folder.
C12_DeleteThenListEmpty ==
    (sop.name = "delete" /\ sop.exc = "") =>
        /\ blobs(store, sop.src) = {}
        /\ files(store, sop.src) = {}
        /\ folders(store, sop.src) = {}

\* delete() on a folder that listed files and sub-folders, in a store that
\* keeps objects outside the folder.
C12_Witness ==
    /\ sop.name = "delete"
    /\ sop.exc = ""
    /\ sop.src.cls = "GSFolder"
    /\ files(spre, sop.src) # {}
    /\ folders(spre, sop.src) # {}
    /\ DOMAIN store # {}
    /\ blobs(store, sop.src) = {}

\* C13: copy(to) and delete() on a prefix no object starts with raise
\* nothing, issue no copy and no delete, and leave the store as it was.
C13_ZeroMatchNoOp ==
    (sop.name \in {"copy", "delete"} /\ blobs(spre, sop.src) = {}) =>
        /\ sop.exc = ""
        /\ \A i \in 1..Len(sop.calls) : sop.calls[i] \notin {"batch_copy", "batch_delete"}
        /\ store = spre

\* The files fk and the folders fd listed for the folder o are disjoint,
\* every listed file is an object, every listed folder holds one, and every
\* key of `keys` is a listed file and under no listed folder, or no listed
\* file and under exactly one listed folder.
Partitions(st, o, fk, fd, keys) ==
    /\ fk \cap fd = {}
    /\ fk \subseteq blobs(st, o)
    /\ \A d \in fd : \E k \in blobs(st, o) : StartsWith(k, d)
    /\ \A k \in keys :
           LET under == {d \in fd : StartsWith(k, d)} IN
           IF k \in fk THEN under = {} ELSE Cardinality(under) = 1

\* C14 as stated: for every folder and every store, files and folders are
\* disjoint and every object key under the folder's prefix is a listed file
\* or lies under exactly one listed folder.
C14_ListingPartitionsKeys ==
    sop.name = "list" =>
        Partitions(store, sop.src, sop.ret.files, sop.ret.folders, blobs(store, sop.src))

\* C14, amended: the same for every object key under the prefix but the
\* prefix itself, the key of the folder's own placeholder object, which files
\* leaves out (storage.py:198).
C14_ListingPartitionsChildren ==
    sop.name = "list" =>
        Partitions(store, sop.src, sop.ret.files, sop.ret.folders,
                   blobs(store, sop.src) \ {sop.src.prefix})

\* The folder a/ of bucket A listed while it held its placeholder, a file
\* and a sub-folder.
C14_Witness ==
    /\ sop.name = "list"
    /\ sop.src = GSFolder(Uri("A", <<"/", "a">>))
    /\ <<"A", <<"a", "/">>>> \in DOMAIN store
    /\ sop.ret.files = {<<"a", "/", "b">>}
    /\ sop.ret.folders = {<<"a", "/", "a", "/">>}

\* The keys the source of the last call listed before the call.
SourceKeys == KeysUnder(spre, sop.src.bucket, sop.src.prefix)
\* The batch of deletes is issued after the batch of copies, if at all.
CopyBeforeDelete ==
    \A i, j \in 1..Len(sop.calls) :
        (sop.calls[i] = "batch_copy" /\ sop.calls[j] = "batch_delete") => i < j
\* move(to), up to the end of its copy step: no source object is gone when
\* the copy step ends, and when the copy step fails no delete is issued and
\* every source object is still there.
MoveCopyStep ==
    /\ CopyBeforeDelete
    /\ ~IsNone(sop.mid) =>
           \A k \in SourceKeys : <<sop.src.bucket, k>> \in DOMAIN Val(sop.mid)
    /\ (IsNone(sop.mid) /\ sop.exc # "") =>
           /\ \A i \in 1..Len(sop.calls) : sop.calls[i] # "batch_delete"
           /\ \A k \in SourceKeys : <<sop.src.bucket, k>> \in DOMAIN store

\* C18 as stated: move(to) is copy(to), then delete(), with no rollback; a
\* delete step that fails after the copy leaves every source object and
\* every object the copy step left in the store.
C18_MoveCopyThenDelete ==
    sop.name = "move" =>
        /\ MoveCopyStep
        /\ (~IsNone(sop.mid) /\ sop.exc = "") => store = delete_all(Val(sop.mid), sop.src)
        /\ (~IsNone(sop.mid) /\ sop.exc # "") =>
               /\ \A k \in SourceKeys : <<sop.src.bucket, k>> \in DOMAIN store
               /\ \A x \in DOMAIN Val(sop.mid) : x \in DOMAIN store

\* C18, amended: a delete step that fails after the copy has deleted some of
\* the objects under the source prefix and not all; every object it did not
\* delete, at the destination or at the source, is as the copy step left it.
C18_MoveNoRollback ==
    sop.name = "move" =>
        /\ MoveCopyStep
        /\ (~IsNone(sop.mid) /\ sop.exc = "") => store = delete_all(Val(sop.mid), sop.src)
        /\ (~IsNone(sop.mid) /\ sop.exc # "") =>
               /\ \E k \in blobs(Val(sop.mid), sop.src) : <<sop.src.bucket, k>> \in DOMAIN store
               /\ DOMAIN store \subseteq DOMAIN Val(sop.mid)
               /\ \A x \in DOMAIN store : store[x] = Val(sop.mid)[x]
               /\ \A x \in DOMAIN Val(sop.mid) \ DOMAIN store :
                      x[1] = sop.src.bucket /\ StartsWith(x[2], sop.src.prefix)

\* A move to the other bucket whose delete step failed with one source
\* object deleted and another left, the copies being in place.
C18_Witness ==
    /\ sop.name = "move"
    /\ sop.exc = "BatchError"
    /\ ~IsNone(sop.mid)
    /\ sop.to.bucket = "B"
    /\ \E k \in SourceKeys : <<sop.src.bucket, k>> \notin DOMAIN store
    /\ \E k \in SourceKeys : <<sop.src.bucket, k>> \in DOMAIN store
    /\ \E x \in DOMAIN store \ DOMAIN spre : x[1] = "B"


\* The number of copy batches the last store call issued.
CopyBatches == Cardinality({i \in 1..Len(sop.calls) : sop.calls[i] = "batch_copy"})

\* C27: after copy(to) (no injected failure) the store holds what it held
\* plus, for every key listed under the source prefix, the key made of the
\* destination prefix and what follows the source prefix in the listed key,
\* in the destination bucket, unless that is the listed key itself; later
\* occurrences of the source prefix in the key stay; every other object is as
\* it was; and the copies were issued in one batch.
C27_CopyKeyRewriting ==
    (sop.name = "copy" /\ sop.exc \notin InjectedStoreErrors) =>
        LET P == sop.src.prefix
            destination == copy_destination(sop.src, sop.to)
            listed == KeysUnder(spre, sop.src.bucket, P)
            targets == {<<destination.bucket, destination.prefix \o Suffix(k, P)>> :
                            k \in {x \in listed : destination.prefix \o Suffix(x, P) # x}}
        IN  /\ DOMAIN store = DOMAIN spre \cup targets
            /\ \A x \in DOMAIN spre \ targets : store[x] = spre[x]
            /\ \A x \in targets : \E k \in listed : store[x] = spre[<<sop.src.bucket, k>>]
            /\ CopyBatches = (IF targets = {} THEN 0 ELSE 1)

\* A copy rewrote a key in which the source prefix occurs a second time, and
\* the new object is there with the second occurrence kept.
C27_Witness ==
    /\ sop.name = "copy" /\ sop.exc = ""
    /\ sop.src.prefix # <<>>
    /\ LET P == sop.src.prefix
           destination == copy_destination(sop.src, sop.to)
       IN  /\ destination.prefix # P
           /\ \E k \in KeysUnder(spre, sop.src.bucket, P) :
                /\ Replace1(Suffix(k, P), P, destination.prefix) # Suffix(k, P)
                /\ <<destination.bucket, destination.prefix \o Suffix(k, P)>> \in DOMAIN store \ DOMAIN spre
                /\ CopyBatches = 1


\* The place copy(to) gives the listed source key k: the destination bucket,
\* and the destination prefix followed by what follows the source prefix in k.
DestinationOf(k) ==
    LET destination == copy_destination(sop.src, sop.to)
    IN  <<destination.bucket, destination.prefix \o Suffix(k, sop.src.prefix)>>

\* C29: after a move(to) that returned without error, every object that was
\* under the source prefix is in the store at its destination key, with the
\* content it had before the call.
C29_MoveKeepsData ==
    (sop.name = "move" /\ sop.exc = "") =>
        \A k \in SourceKeys :
            /\ DestinationOf(k) \in DOMAIN store
            /\ store[DestinationOf(k)] = spre[<<sop.src.bucket, k>>]

\* C30: after a copy(to) that completed, every object that was under the
\* source prefix is still at its key with its content, and the object at
\* its destination key holds the content the source object had before the
\* call.
C30_CopyKeepsSource ==
    (sop.name = "copy" /\ sop.exc = "") =>
        \A k \in SourceKeys :
            /\ <<sop.src.bucket, k>> \in DOMAIN store
            /\ store[<<sop.src.bucket, k>>] = spre[<<sop.src.bucket, k>>]
            /\ DestinationOf(k) \in DOMAIN store
            /\ store[DestinationOf(k)] = spre[<<sop.src.bucket, k>>]


\* C31: delete() on a GSFile of key k that returned removes the object at
\* key k and leaves every other object of the store as it was, the objects
\* whose key starts with k and goes on among them; and no delete(), failed or
\* not, changes an object of another bucket or an object whose key does not
\* start with the prefix of the location it was called on.
C31_DeleteFileExactKey ==
    sop.name = "delete" =>
        /\ (sop.src.cls = "GSFile" /\ sop.exc = "") =>
              /\ DOMAIN store = DOMAIN spre \ {<<sop.src.bucket, sop.src.prefix>>}
              /\ \A x \in DOMAIN store : store[x] = spre[x]
        /\ \A x \in DOMAIN spre :
              (x[1] # sop.src.bucket \/ ~StartsWith(x[2], sop.src.prefix)) =>
                  x \in DOMAIN store /\ store[x] = spre[x]

====
